---------------------------- MODULE Spec2Model ----------------------------
(***************************************************************************)
(* nexMeet-chat: a socket.io relay for meeting rooms.  The repository      *)
(* holds six versions of the same connection handler; the variable         *)
(* `variant` says which one is the running server:                         *)
(*   "SC"  src/api/index.ts 1-99      self-contained, in-memory `meets`    *)
(*   "BE"  src/api/index.ts 101-233   backend, try/catch, explicit ids     *)
(*   "B0"  src/unnamed/part_000 1-94  backend, no session, no try/catch    *)
(*   "JWT" src/unnamed/part_000 96-361 token verified at connection time   *)
(*   "BD"  src/unnamed/part_001       backend-delegated joinMeet/newUser   *)
(*   "SS"  src/unnamed/part_002       session stored by newUser            *)
(* An async handler is split at each `await request(...)`: the request is  *)
(* a frame in `inflight`, the backend answers it, the handler resumes.     *)
(***************************************************************************)
EXTENDS Integers, Sequences, FiniteSets, TLC

VARIABLES
    variant,    \* which server file is running
    secret,     \* process.env.JWT_SECRET is configured
    conn,       \* conn[s]: "idle" (not yet connected), "open", "closed"
    data,       \* socket.data of each connection
    meets,      \* the in-memory registry `meets` of the self-contained server
    meetKeys,   \* Object.keys(meets): the keys of `meets` in insertion order
    rooms,      \* socket.io adapter rooms: room id -> subscribed connections
    backend,    \* the backend's membership store: room id -> active users
    inflight,   \* suspended handlers, each waiting at an `await request`
    pool,       \* how many requests the HTTP client keeps in flight at once
    escaped,    \* an exception escaped a handler (unhandled rejection)
    last,       \* the event or continuation the last step ran
    sent        \* the emissions of the last step, in order

vars == <<variant, secret, pool, conn, data, meets, meetKeys, rooms, backend,
          inflight, escaped, last, sent>>

--------------------------------------------------------------------------
(* Bounds and input domains                                                *)

NumSockets == 2
MaxInflight == 1

SockName == <<"s1", "s2", "s3", "s4">>
Sockets == {SockName[i] : i \in 1..NumSockets}

Variants == {"SC", "BE", "B0", "JWT", "BD", "SS"}
MeetIds == {"r1", "r2"}
UserIds == {"u1", "u2"}

Undef == "<undefined>"
Null == "<null>"

\* JavaScript truthiness of a string-or-undefined argument: `!x`
Falsy(x) == x = "" \/ x = Undef \/ x = Null

\* `a || b`
OrElse(a, b) == IF Falsy(a) THEN b ELSE a

\* `a ?? b`
Coalesce(a, b) == IF a = Undef \/ a = Null THEN b ELSE a

\* message texts are sequences of characters; NoText stands for a payload
\* without a message (payload?.message is undefined)
WhiteSpace == {" ", "\t", "\n"}
NoText == <<Undef>>
Texts == {<<>>, <<" ", "\t">>, <<" ", "a", " ">>}

RECURSIVE TrimStart(_)
TrimStart(t) ==
    IF t # <<>> /\ Head(t) \in WhiteSpace THEN TrimStart(Tail(t)) ELSE t

RECURSIVE TrimEnd(_)
TrimEnd(t) ==
    IF t # <<>> /\ t[Len(t)] \in WhiteSpace
    THEN TrimEnd(SubSeq(t, 1, Len(t) - 1))
    ELSE t

\* the text relayed as it came
Trim_Omitted(t) == t

\* payload?.message?.trim()
Trim(t) == IF t = NoText THEN NoText ELSE TrimEnd(TrimStart(t))

\* `!trimmed`
NoTrimmed(t) == Trim(t) = NoText \/ Trim(t) = <<>>

\* timestamps a client may put in a payload, and the relay's clock
ValidClientTimestamps == {"2020-05-05T05:05:05.000Z"}
ClientTimestamps == {Undef, "not-a-date"} \cup ValidClientTimestamps
ClockTimes == {"2024-01-01T00:00:00.000Z"}

Payloads == [userId : UserIds \cup {""}, message : Texts \cup {NoText},
             timestamp : ClientTimestamps]

\* the payloads of the specifications that are not about the chat relay
FewPayloads == {p \in Payloads : /\ p.timestamp = Undef
                                 /\ p.userId \in UserIds
                                 /\ p.message \in {<<>>, <<" ", "a", " ">>}}

--------------------------------------------------------------------------
(* Records                                                                 *)

User(s, u) == [socketId |-> s, userId |-> u]
NullUser == User(Null, Null)
NoUser == User(Undef, Undef)

NoOut == [userId |-> Undef, message |-> NoText, timestamp |-> Undef]
NoData == [userId |-> Undef, meetId |-> Undef, token |-> Undef]

\* the connections an emission to room r reaches: io.to(r)
InRoom(r) == IF r \in DOMAIN rooms THEN rooms[r] ELSE {}

\* the connections an emission to socket s reaches: socket.emit on a closed
\* socket is delivered to nobody
Reach(s) == IF conn[s] = "open" THEN {s} ELSE {}

Emission(ev, room, sock, to, list, joining, leaving, out, origin) ==
    [ev |-> ev, room |-> room, sock |-> sock, to |-> to, list |-> list,
     joining |-> joining, leaving |-> leaving, out |-> out, origin |-> origin]

\* io.to(room).emit("usersOnline", list [, joining, leaving]) to `to`
UsersOnline(room, to, list, joining, leaving) ==
    Emission("usersOnline", room, Undef, to, list, joining, leaving, NoOut, Undef)

\* io.to(room).emit("newMessage", out)
NewMessage(room, to, out) ==
    Emission("newMessage", room, Undef, to, <<>>, NoUser, NoUser, out, Undef)

\* socket.emit("meetFull")
MeetFull(s) ==
    Emission("meetFull", Undef, s, Reach(s), <<>>, NoUser, NoUser, NoOut, Undef)

\* socket.emit(ev, {origin, message}) with ev "socketServerError" or "error"
ErrorEvent(ev, s, origin) ==
    Emission(ev, Undef, s, Reach(s), <<>>, NoUser, NoUser, NoOut, origin)

NoPayload == [userId |-> Undef, message |-> NoText, timestamp |-> Undef]

Event(op, s, meetId, userId, payload, at) ==
    [op |-> op, sock |-> s, meetId |-> meetId, userId |-> userId,
     payload |-> payload, at |-> at, phase |-> "event", outcome |-> "none"]

\* the event loop is between two callbacks
Idle == Event("idle", Undef, Undef, Undef, NoPayload, Undef)

\* the event loop can run the next callback: the previous one has returned
\* and no exception has ended the process
Ready == last = Idle /\ ~escaped

--------------------------------------------------------------------------
(* The self-contained server: src/api/index.ts 1-99                        *)

\* meets[meetId] ?? []
UserList(meetId) == IF meetId \in DOMAIN meets THEN meets[meetId] ELSE <<>>

\* meets[meetId] = list
PutMeet(m, meetId, list) ==
    [k \in DOMAIN m \cup {meetId} |-> IF k = meetId THEN list ELSE m[k]]

PutKey(keys, meetId) ==
    IF \E i \in 1..Len(keys) : keys[i] = meetId THEN keys ELSE Append(keys, meetId)

\* io.on("connection") of the servers without authentication
Connect(s) ==
    /\ Ready
    /\ variant # "JWT"
    /\ conn[s] = "idle"
    /\ conn' = [conn EXCEPT ![s] = "open"]
    /\ last' = Event("connection", s, Undef, Undef, NoPayload, Undef)
    /\ sent' = <<>>
    /\ UNCHANGED <<variant, secret, pool, data, meets, meetKeys, rooms, backend,
                   inflight, escaped>>

SC_Capacity == 2

\* userList.length >= 2
SC_Full(userList) == Len(userList) >= SC_Capacity

SC_joinMeet(s, meetId) ==
    /\ Ready
    /\ variant = "SC"
    /\ conn[s] = "open"
    /\ last' = Event("joinMeet", s, meetId, Undef, NoPayload, Undef)
    /\ IF Falsy(meetId)
       THEN /\ sent' = <<>>
            /\ UNCHANGED <<meets, meetKeys, rooms>>
       ELSE IF SC_Full(UserList(meetId))
       THEN /\ sent' = <<MeetFull(s)>>
            /\ UNCHANGED <<meets, meetKeys, rooms>>
       ELSE /\ meets' = PutMeet(meets, meetId, Append(UserList(meetId), User(s, "")))
            /\ meetKeys' = PutKey(meetKeys, meetId)
            /\ rooms' = [rooms EXCEPT ![meetId] = @ \cup {s}]
            /\ sent' = <<UsersOnline(meetId, rooms'[meetId], meets'[meetId],
                                     NoUser, NoUser)>>
    /\ UNCHANGED <<variant, secret, pool, conn, data, backend, inflight, escaped>>

\* a rename that does not look at the connection id
Rename_Everyone(users, s, userId) ==
    [i \in 1..Len(users) |-> User(users[i].socketId, userId)]

\* users.map((u) => u.socketId === socket.id ? { socketId, userId } : u)
Rename(users, s, userId) ==
    [i \in 1..Len(users) |->
        IF users[i].socketId = s THEN User(s, userId) ELSE users[i]]

SC_newUser(s, meetId, userId) ==
    /\ Ready
    /\ variant = "SC"
    /\ conn[s] = "open"
    /\ last' = Event("newUser", s, meetId, userId, NoPayload, Undef)
    /\ IF Falsy(meetId) \/ Falsy(userId) \/ meetId \notin DOMAIN meets
       THEN /\ sent' = <<>>
            /\ UNCHANGED meets
       ELSE /\ meets' = [meets EXCEPT ![meetId] = Rename(@, s, userId)]
            /\ sent' = <<UsersOnline(meetId, InRoom(meetId), meets'[meetId],
                                     NoUser, NoUser)>>
    /\ UNCHANGED <<variant, secret, pool, conn, data, meetKeys, rooms, backend,
                   inflight, escaped>>

\* users.find((u) => u.socketId === socket.id)?.userId
SenderUserId(users, s) ==
    IF \E i \in 1..Len(users) : users[i].socketId = s
    THEN users[CHOOSE i \in 1..Len(users) :
                  /\ users[i].socketId = s
                  /\ \A j \in 1..(i - 1) : users[j].socketId # s].userId
    ELSE Undef

\* { userId, message: trimmed, timestamp: payload.timestamp ?? new Date().toISOString() }
Outgoing(userId, payload, at) ==
    [userId |-> userId, message |-> Trim(payload.message),
     timestamp |-> Coalesce(payload.timestamp, at)]

SC_sendMessage(s, meetId, payload, at) ==
    /\ Ready
    /\ variant = "SC"
    /\ conn[s] = "open"
    /\ last' = Event("sendMessage", s, meetId, Undef, payload, at)
    /\ IF NoTrimmed(payload.message)
       THEN sent' = <<>>
       ELSE sent' = <<NewMessage(meetId, InRoom(meetId),
                        Outgoing(OrElse(payload.userId,
                                   OrElse(SenderUserId(UserList(meetId), s), s)),
                                 payload, at))>>
    /\ UNCHANGED <<variant, secret, pool, conn, data, meets, meetKeys, rooms, backend,
                   inflight, escaped>>

\* the filter keeping every entry
Without_KeepsAll(users, s) == users

\* meets[meetId].filter((u) => u.socketId !== socket.id)
Without(users, s) == SelectSeq(users, LAMBDA u : u.socketId # s)

\* socket.io removes a closing socket from every room before "disconnect" fires
LeaveAll(s) == [r \in DOMAIN rooms |-> rooms[r] \ {s}]

\* the loop of the disconnect handler over Object.keys(meets): the registry,
\* its keys and the emissions after visiting keys[i..]
\* the loop without its `delete meets[meetId]`
RECURSIVE DisconnectLoop_KeepsEmpty(_, _, _, _, _, _)
DisconnectLoop_KeepsEmpty(keys, i, m, kept, out, s) ==
    IF i > Len(keys)
    THEN [meets |-> m, keys |-> kept, sent |-> out]
    ELSE LET meetId == keys[i]
             after == Without(m[meetId], s)
             out2 == IF Len(m[meetId]) # Len(after)
                     THEN Append(out, UsersOnline(meetId, LeaveAll(s)[meetId],
                                                  after, NoUser, NoUser))
                     ELSE out
         IN DisconnectLoop_KeepsEmpty(keys, i + 1, [m EXCEPT ![meetId] = after],
                                      Append(kept, meetId), out2, s)

RECURSIVE DisconnectLoop(_, _, _, _, _, _)
DisconnectLoop(keys, i, m, kept, out, s) ==
    IF i > Len(keys)
    THEN [meets |-> m, keys |-> kept, sent |-> out]
    ELSE LET meetId == keys[i]
             after == Without(m[meetId], s)
             out2 == IF Len(m[meetId]) # Len(after)
                     THEN Append(out, UsersOnline(meetId, LeaveAll(s)[meetId],
                                                  after, NoUser, NoUser))
                     ELSE out
         IN IF Len(after) = 0
            THEN DisconnectLoop(keys, i + 1,
                                [k \in DOMAIN m \ {meetId} |-> m[k]], kept, out2, s)
            ELSE DisconnectLoop(keys, i + 1, [m EXCEPT ![meetId] = after],
                                Append(kept, meetId), out2, s)

SC_disconnect(s) ==
    /\ Ready
    /\ variant = "SC"
    /\ conn[s] = "open"
    /\ conn' = [conn EXCEPT ![s] = "closed"]
    /\ rooms' = LeaveAll(s)
    /\ last' = Event("disconnect", s, Undef, Undef, NoPayload, Undef)
    /\ LET r == DisconnectLoop(meetKeys, 1, meets, <<>>, <<>>, s)
       IN /\ meets' = r.meets
          /\ meetKeys' = r.keys
          /\ sent' = r.sent
    /\ UNCHANGED <<variant, secret, pool, data, backend, inflight, escaped>>

--------------------------------------------------------------------------
(* The backend: an HTTP service outside the repository.  A request is       *)
(* handled at the moment it is answered; the answer is the domain payload,  *)
(* an error payload {error}, or a failure of fetch / response.json().       *)

BD_Capacity == 10

\* the members a room of the backend may hold before the relay starts
GhostName == <<"g1", "g2", "g3", "g4", "g5", "g6", "g7", "g8", "g9", "g10">>
Prefill(n) == [i \in 1..n |-> User("old", GhostName[i])]
PrefillSizes == {0, BD_Capacity - 1}

\* add-or-update of (userId, socketId): one entry per user id
Upsert(list, userId, socketId) ==
    IF \E i \in 1..Len(list) : list[i].userId = userId
    THEN [i \in 1..Len(list) |->
            IF list[i].userId = userId THEN User(socketId, userId) ELSE list[i]]
    ELSE Append(list, User(socketId, userId))

\* removal of the entry of userId
RemoveUser(list, userId) == SelectSeq(list, LAMBDA u : u.userId # userId)

Request(s, op, step, endpoint, meetId, userId, socketId, token) ==
    [sock |-> s, op |-> op, step |-> step, endpoint |-> endpoint,
     meetId |-> meetId, userId |-> userId, socketId |-> socketId, token |-> token]

\* what the backend can answer to a request
Outcomes == {"ok", "error", "throw"}

\* the membership of f.meetId after the backend has accepted f
Served(f) ==
    CASE f.endpoint \in {"updateOrAddMeetingUser", "addUser", "updateMeetingUser"} ->
            Upsert(backend[f.meetId], f.userId, f.socketId)
      [] f.endpoint = "removeUser" -> RemoveUser(backend[f.meetId], f.userId)
      [] OTHER -> backend[f.meetId]

\* the backend's store after answering f with outcome o
BackendAfter(f, o) ==
    IF o = "ok" /\ f.meetId \in MeetIds
    THEN [backend EXCEPT ![f.meetId] = Served(f)]
    ELSE backend

\* the list of an accepted request's answer; a room the backend does not
\* know has no members
Answer(f) == IF f.meetId \in MeetIds THEN Served(f) ELSE <<>>

\* await request(...): the handler is suspended with its request in flight
Await(f) ==
    /\ Cardinality(inflight) < pool
    /\ f \notin inflight
    /\ inflight' = inflight \cup {f}

\* a suspended handler goes on to its next request
AwaitNext(f, g) ==
    /\ g \notin inflight
    /\ inflight' = (inflight \ {f}) \cup {g}

Resumed(f, o) ==
    [op |-> f.op, sock |-> f.sock, meetId |-> f.meetId, userId |-> f.userId,
     payload |-> NoPayload, at |-> Undef, phase |-> f.endpoint, outcome |-> o]

\* socket.join(meetId): a no-op once the socket has closed
Join(s, meetId) ==
    IF conn[s] = "open" /\ meetId \in DOMAIN rooms
    THEN [rooms EXCEPT ![meetId] = @ \cup {s}]
    ELSE rooms

\* meetUsers.find((u) => u.userId === userId) || null
FindUser(list, userId) ==
    IF \E i \in 1..Len(list) : list[i].userId = userId
    THEN list[CHOOSE i \in 1..Len(list) :
                 /\ list[i].userId = userId
                 /\ \A j \in 1..(i - 1) : list[j].userId # userId]
    ELSE NullUser

\* the reason socket.io gives a disconnect handler as its first argument; the
\* second, the description, is undefined
DisconnectReasons == {"transport close"}

--------------------------------------------------------------------------
(* The backend server with try/catch: src/api/index.ts 101-233             *)

BE_newUser(s, userId, meetId) ==
    /\ Ready
    /\ variant = "BE"
    /\ conn[s] = "open"
    /\ last' = Event("newUser", s, meetId, userId, NoPayload, Undef)
    /\ sent' = <<>>
    /\ IF Falsy(meetId) \/ Falsy(userId)
       THEN UNCHANGED inflight
       ELSE Await(Request(s, "newUser", 1, "updateOrAddMeetingUser",
                          meetId, userId, s, Undef))
    /\ UNCHANGED <<variant, secret, pool, conn, data, meets, meetKeys, rooms, backend,
                   escaped>>

BE_newUser_resume(f, o) ==
    /\ Ready
    /\ variant = "BE"
    /\ f \in inflight /\ f.op = "newUser"
    /\ o \in Outcomes
    /\ inflight' = inflight \ {f}
    /\ backend' = BackendAfter(f, o)
    /\ last' = Resumed(f, o)
    /\ IF o = "throw"
       THEN /\ sent' = <<ErrorEvent("socketServerError", f.sock, "backend")>>
            /\ UNCHANGED rooms
       ELSE /\ rooms' = Join(f.sock, f.meetId)
            /\ IF o = "error"
               THEN sent' = <<ErrorEvent("socketServerError", f.sock, "newUser")>>
               ELSE sent' = <<UsersOnline(f.meetId, Join(f.sock, f.meetId)[f.meetId],
                                          Answer(f),
                                          FindUser(Answer(f), f.userId),
                                          NullUser)>>
    /\ UNCHANGED <<variant, secret, pool, conn, data, meets, meetKeys, escaped>>

BE_sendMessage(s, meetId, payload, at) ==
    /\ Ready
    /\ variant = "BE"
    /\ conn[s] = "open"
    /\ last' = Event("sendMessage", s, meetId, Undef, payload, at)
    /\ IF NoTrimmed(payload.message)
       THEN sent' = <<>>
       ELSE sent' = <<NewMessage(meetId, InRoom(meetId),
                                 Outgoing(payload.userId, payload, at))>>
    /\ UNCHANGED <<variant, secret, pool, conn, data, meets, meetKeys, rooms, backend,
                   inflight, escaped>>

BE_disconnect(s, reason) ==
    /\ Ready
    /\ variant = "BE"
    /\ conn[s] = "open"
    /\ conn' = [conn EXCEPT ![s] = "closed"]
    /\ rooms' = LeaveAll(s)
    /\ last' = Event("disconnect", s, Undef, reason, NoPayload, Undef)
    /\ sent' = <<>>
    /\ Await(Request(s, "disconnect", 1, "removeUser", Undef, reason, Undef, Undef))
    /\ UNCHANGED <<variant, secret, pool, data, meets, meetKeys, backend, escaped>>

BE_disconnect_resume(f, o) ==
    /\ Ready
    /\ variant = "BE"
    /\ f \in inflight /\ f.op = "disconnect"
    /\ o \in Outcomes
    /\ inflight' = inflight \ {f}
    /\ backend' = BackendAfter(f, o)
    /\ last' = Resumed(f, o)
    /\ sent' = CASE o = "throw" ->
                      <<ErrorEvent("socketServerError", f.sock, "backend")>>
                 [] o = "error" ->
                      <<ErrorEvent("socketServerError", f.sock, "disconnect")>>
                 [] OTHER ->
                      <<UsersOnline(f.meetId, InRoom(f.meetId), Answer(f),
                                    NullUser, FindUser(Answer(f), f.userId))>>
    /\ UNCHANGED <<variant, secret, pool, conn, data, meets, meetKeys, rooms, escaped>>

--------------------------------------------------------------------------
(* The backend server without session: src/unnamed/part_000 1-94           *)

B0_newUser(s, userId, meetId) ==
    /\ Ready
    /\ variant = "B0"
    /\ conn[s] = "open"
    /\ last' = Event("newUser", s, meetId, userId, NoPayload, Undef)
    /\ sent' = <<>>
    /\ IF Falsy(meetId) \/ Falsy(userId)
       THEN UNCHANGED inflight
       ELSE Await(Request(s, "newUser", 1, "updateOrAddMeetingUser",
                          meetId, userId, s, Undef))
    /\ UNCHANGED <<variant, secret, pool, conn, data, meets, meetKeys, rooms, backend,
                   escaped>>

B0_newUser_resume(f, o) ==
    /\ Ready
    /\ variant = "B0"
    /\ f \in inflight /\ f.op = "newUser"
    /\ o \in Outcomes
    /\ inflight' = inflight \ {f}
    /\ backend' = BackendAfter(f, o)
    /\ last' = Resumed(f, o)
    /\ escaped' = (o = "throw")
    /\ sent' = CASE o = "throw" -> <<>>
                 [] o = "error" ->
                      <<ErrorEvent("socketServerError", f.sock, "newUser")>>
                 [] OTHER ->
                      <<UsersOnline(f.meetId, InRoom(f.meetId), Answer(f),
                                    NoUser, NoUser)>>
    /\ UNCHANGED <<variant, secret, pool, conn, data, meets, meetKeys, rooms>>

B0_sendMessage(s, meetId, payload, at) ==
    /\ Ready
    /\ variant = "B0"
    /\ conn[s] = "open"
    /\ last' = Event("sendMessage", s, meetId, Undef, payload, at)
    /\ IF NoTrimmed(payload.message)
       THEN sent' = <<>>
       ELSE sent' = <<NewMessage(meetId, InRoom(meetId),
                                 Outgoing(payload.userId, payload, at))>>
    /\ UNCHANGED <<variant, secret, pool, conn, data, meets, meetKeys, rooms, backend,
                   inflight, escaped>>

B0_disconnect(s, reason) ==
    /\ Ready
    /\ variant = "B0"
    /\ conn[s] = "open"
    /\ conn' = [conn EXCEPT ![s] = "closed"]
    /\ rooms' = LeaveAll(s)
    /\ last' = Event("disconnect", s, Undef, reason, NoPayload, Undef)
    /\ sent' = <<>>
    /\ Await(Request(s, "disconnect", 1, "removeUser", Undef, reason, Undef, Undef))
    /\ UNCHANGED <<variant, secret, pool, data, meets, meetKeys, backend, escaped>>

B0_disconnect_resume(f, o) ==
    /\ Ready
    /\ variant = "B0"
    /\ f \in inflight /\ f.op = "disconnect"
    /\ o \in Outcomes
    /\ inflight' = inflight \ {f}
    /\ backend' = BackendAfter(f, o)
    /\ last' = Resumed(f, o)
    /\ escaped' = (o = "throw")
    /\ sent' = CASE o = "throw" -> <<>>
                 [] o = "error" ->
                      <<ErrorEvent("socketServerError", f.sock, "disconnect")>>
                 [] OTHER ->
                      <<UsersOnline(f.meetId, InRoom(f.meetId), Answer(f),
                                    NoUser, NoUser)>>
    /\ UNCHANGED <<variant, secret, pool, conn, data, meets, meetKeys, rooms>>

--------------------------------------------------------------------------
(* The token-authenticated server: src/unnamed/part_000 96-361             *)

\* jwt.verify(token, JWT_SECRET): the user id a token decodes to
Tokens == {Undef, "forged", "token-u1", "token-u2"}
\* a verification that accepts whatever is presented
Verified_Anything(token) == TRUE
Verified(token) == token \in {"token-u1", "token-u2"}
Decoded(token) == IF token = "token-u1" THEN "u1" ELSE "u2"

\* io.use(...): the authentication middleware, then io.on("connection")
JWT_connect(s, token) ==
    /\ Ready
    /\ variant = "JWT"
    /\ conn[s] = "idle"
    /\ sent' = <<>>
    /\ IF Falsy(token) \/ ~secret \/ ~Verified(token)
       THEN /\ conn' = [conn EXCEPT ![s] = "closed"]
            /\ last' = [Event("connection", s, Undef, Undef, NoPayload, Undef)
                          EXCEPT !.outcome = "rejected"]
            /\ UNCHANGED data
       ELSE /\ conn' = [conn EXCEPT ![s] = "open"]
            /\ data' = [data EXCEPT ![s] = [userId |-> Decoded(token),
                                            meetId |-> Undef, token |-> token]]
            /\ last' = [Event("connection", s, Undef, Decoded(token), NoPayload, Undef)
                          EXCEPT !.outcome = "accepted"]
    /\ UNCHANGED <<variant, secret, pool, meets, meetKeys, rooms, backend, inflight,
                   escaped>>

JWT_newUser(s, meetId) ==
    /\ Ready
    /\ variant = "JWT"
    /\ conn[s] = "open"
    /\ last' = Event("newUser", s, meetId, data[s].userId, NoPayload, Undef)
    /\ IF Falsy(meetId)
       THEN /\ sent' = <<ErrorEvent("socketServerError", s, "newUser")>>
            /\ UNCHANGED <<data, inflight>>
       ELSE /\ sent' = <<>>
            /\ data' = [data EXCEPT ![s].meetId = meetId]
            /\ Await(Request(s, "newUser", 1, "updateOrAddMeetingUser",
                             meetId, data[s].userId, s, data[s].token))
    /\ UNCHANGED <<variant, secret, pool, conn, meets, meetKeys, rooms, backend, escaped>>

JWT_newUser_resume(f, o) ==
    /\ Ready
    /\ variant = "JWT"
    /\ f \in inflight /\ f.op = "newUser"
    /\ o \in Outcomes
    /\ inflight' = inflight \ {f}
    /\ backend' = BackendAfter(f, o)
    /\ last' = Resumed(f, o)
    /\ CASE o = "throw" ->
              /\ sent' = <<ErrorEvent("socketServerError", f.sock, "backend")>>
              /\ UNCHANGED rooms
         [] o = "error" ->
              /\ sent' = <<ErrorEvent("socketServerError", f.sock, "newUser")>>
              /\ UNCHANGED rooms
         [] OTHER ->
              /\ rooms' = Join(f.sock, f.meetId)
              /\ sent' = <<UsersOnline(f.meetId, Join(f.sock, f.meetId)[f.meetId],
                                       Answer(f), FindUser(Answer(f), f.userId),
                                       NullUser)>>
    /\ UNCHANGED <<variant, secret, pool, conn, data, meets, meetKeys, escaped>>

JWT_sendMessage(s, payload, at) ==
    /\ Ready
    /\ variant = "JWT"
    /\ conn[s] = "open"
    /\ last' = Event("sendMessage", s, data[s].meetId, data[s].userId, payload, at)
    /\ sent' = CASE NoTrimmed(payload.message) -> <<>>
                 [] payload.userId # data[s].userId ->
                      <<ErrorEvent("socketServerError", s, "sendMessage")>>
                 [] OTHER ->
                      <<NewMessage(data[s].meetId, InRoom(data[s].meetId),
                                   Outgoing(payload.userId, payload, at))>>
    /\ UNCHANGED <<variant, secret, pool, conn, data, meets, meetKeys, rooms, backend,
                   inflight, escaped>>

JWT_disconnect(s) ==
    /\ Ready
    /\ variant = "JWT"
    /\ conn[s] = "open"
    /\ conn' = [conn EXCEPT ![s] = "closed"]
    /\ rooms' = LeaveAll(s)
    /\ last' = Event("disconnect", s, data[s].meetId, data[s].userId, NoPayload, Undef)
    /\ sent' = <<>>
    /\ IF Falsy(data[s].userId) \/ Falsy(data[s].meetId)
       THEN UNCHANGED inflight
       ELSE Await(Request(s, "disconnect", 1, "removeUser", data[s].meetId,
                          data[s].userId, s, data[s].token))
    /\ UNCHANGED <<variant, secret, pool, data, meets, meetKeys, backend, escaped>>

\* a disconnect handler that reports a failed removal as the other servers do
JWT_disconnect_resume_Reports(f, o) ==
    /\ Ready
    /\ variant = "JWT"
    /\ f \in inflight /\ f.op = "disconnect"
    /\ o \in Outcomes
    /\ inflight' = inflight \ {f}
    /\ backend' = BackendAfter(f, o)
    /\ last' = Resumed(f, o)
    /\ sent' = IF o = "ok"
               THEN <<UsersOnline(f.meetId, InRoom(f.meetId), Answer(f),
                                  NullUser, User(f.sock, f.userId))>>
               ELSE <<ErrorEvent("socketServerError", f.sock, "disconnect")>>
    /\ UNCHANGED <<variant, secret, pool, conn, data, meets, meetKeys, rooms, escaped>>

JWT_disconnect_resume(f, o) ==
    /\ Ready
    /\ variant = "JWT"
    /\ f \in inflight /\ f.op = "disconnect"
    /\ o \in Outcomes
    /\ inflight' = inflight \ {f}
    /\ backend' = BackendAfter(f, o)
    /\ last' = Resumed(f, o)
    /\ sent' = IF o = "ok"
               THEN <<UsersOnline(f.meetId, InRoom(f.meetId), Answer(f),
                                  NullUser, User(f.sock, f.userId))>>
               ELSE <<>>
    /\ UNCHANGED <<variant, secret, pool, conn, data, meets, meetKeys, rooms, escaped>>

--------------------------------------------------------------------------
(* The backend-delegated server: src/unnamed/part_001                      *)

BD_joinMeet(s, userId, meetId) ==
    /\ Ready
    /\ variant = "BD"
    /\ conn[s] = "open"
    /\ last' = Event("joinMeet", s, meetId, userId, NoPayload, Undef)
    /\ sent' = <<>>
    /\ IF Falsy(meetId) \/ Falsy(userId)
       THEN UNCHANGED inflight
       ELSE Await(Request(s, "joinMeet", 1, "getMeet", meetId, userId, s, Undef))
    /\ UNCHANGED <<variant, secret, pool, conn, data, meets, meetKeys, rooms, backend,
                   escaped>>

\* the occupancy check one off
BD_Full_OffByOne(active_users) == Len(active_users) > BD_Capacity

\* meet.active_users.length >= 10
BD_Full(active_users) == Len(active_users) >= BD_Capacity

\* after `await request({method: "GET", endpoint: /meets/${meetId}})`
BD_joinMeet_meet(f, o) ==
    /\ Ready
    /\ variant = "BD"
    /\ f \in inflight /\ f.op = "joinMeet" /\ f.step = 1
    /\ o \in Outcomes
    /\ last' = Resumed(f, o)
    /\ escaped' = (o = "throw")
    /\ CASE o = "throw" ->
              /\ sent' = <<>>
              /\ inflight' = inflight \ {f}
         [] o = "error" ->
              /\ sent' = <<ErrorEvent("error", f.sock, "joinMeet")>>
              /\ inflight' = inflight \ {f}
         [] o = "ok" /\ BD_Full(Answer(f)) ->
              /\ sent' = <<MeetFull(f.sock)>>
              /\ inflight' = inflight \ {f}
         [] OTHER ->
              /\ sent' = <<>>
              /\ AwaitNext(f, [f EXCEPT !.step = 2, !.endpoint = "addUser"])
    /\ UNCHANGED <<variant, secret, pool, conn, data, meets, meetKeys, rooms, backend>>

\* after `await request({method: "PUT", endpoint: /meetings/addUser/${meetId}})`
BD_joinMeet_added(f, o) ==
    /\ Ready
    /\ variant = "BD"
    /\ f \in inflight /\ f.op = "joinMeet" /\ f.step = 2
    /\ o \in Outcomes
    /\ inflight' = inflight \ {f}
    /\ backend' = BackendAfter(f, o)
    /\ last' = Resumed(f, o)
    /\ escaped' = (o = "throw")
    /\ CASE o = "throw" ->
              /\ sent' = <<>>
              /\ UNCHANGED rooms
         [] o = "error" ->
              /\ sent' = <<ErrorEvent("error", f.sock, "joinMeet")>>
              /\ UNCHANGED rooms
         [] OTHER ->
              /\ rooms' = Join(f.sock, f.meetId)
              /\ sent' = <<UsersOnline(f.meetId, Join(f.sock, f.meetId)[f.meetId],
                                       Answer(f), NoUser, NoUser)>>
    /\ UNCHANGED <<variant, secret, pool, conn, data, meets, meetKeys>>

BD_newUser(s, meetId, userId) ==
    /\ Ready
    /\ variant = "BD"
    /\ conn[s] = "open"
    /\ last' = Event("newUser", s, meetId, userId, NoPayload, Undef)
    /\ sent' = <<>>
    /\ IF Falsy(meetId) \/ Falsy(userId)
       THEN UNCHANGED inflight
       ELSE Await(Request(s, "newUser", 1, "updateMeetingUser", meetId, userId,
                          s, Undef))
    /\ UNCHANGED <<variant, secret, pool, conn, data, meets, meetKeys, rooms, backend,
                   escaped>>

\* after `await request({method: "PUT", endpoint: /meetings/updateMeetingUser/...})`
BD_newUser_updated(f, o) ==
    /\ Ready
    /\ variant = "BD"
    /\ f \in inflight /\ f.op = "newUser" /\ f.step = 1
    /\ o \in Outcomes
    /\ backend' = BackendAfter(f, o)
    /\ last' = Resumed(f, o)
    /\ escaped' = (o = "throw")
    /\ CASE o = "throw" ->
              /\ sent' = <<>>
              /\ inflight' = inflight \ {f}
         [] o = "error" ->
              /\ sent' = <<ErrorEvent("error", f.sock, "joinMeet")>>
              /\ inflight' = inflight \ {f}
         [] OTHER ->
              /\ sent' = <<>>
              /\ AwaitNext(f, [f EXCEPT !.step = 2, !.endpoint = "getMeetingUsers"])
    /\ UNCHANGED <<variant, secret, pool, conn, data, meets, meetKeys, rooms>>

\* after `await request({method: "GET", endpoint: /meets/getMeetingUsers/...})`
BD_newUser_users(f, o) ==
    /\ Ready
    /\ variant = "BD"
    /\ f \in inflight /\ f.op = "newUser" /\ f.step = 2
    /\ o \in Outcomes
    /\ inflight' = inflight \ {f}
    /\ last' = Resumed(f, o)
    /\ escaped' = (o = "throw")
    /\ sent' = CASE o = "throw" -> <<>>
                 [] o = "error" -> <<ErrorEvent("error", f.sock, "joinMeet")>>
                 [] OTHER -> <<UsersOnline(f.meetId, InRoom(f.meetId), Answer(f),
                                           NoUser, NoUser)>>
    /\ UNCHANGED <<variant, secret, pool, conn, data, meets, meetKeys, rooms, backend>>

BD_sendMessage(s, meetId, payload, at) ==
    /\ Ready
    /\ variant = "BD"
    /\ conn[s] = "open"
    /\ last' = Event("sendMessage", s, meetId, Undef, payload, at)
    /\ IF NoTrimmed(payload.message)
       THEN sent' = <<>>
       ELSE sent' = <<NewMessage(meetId, InRoom(meetId),
                                 Outgoing(payload.userId, payload, at))>>
    /\ UNCHANGED <<variant, secret, pool, conn, data, meets, meetKeys, rooms, backend,
                   inflight, escaped>>

BD_disconnect(s, reason) ==
    /\ Ready
    /\ variant = "BD"
    /\ conn[s] = "open"
    /\ conn' = [conn EXCEPT ![s] = "closed"]
    /\ rooms' = LeaveAll(s)
    /\ last' = Event("disconnect", s, Undef, reason, NoPayload, Undef)
    /\ sent' = <<>>
    /\ Await(Request(s, "disconnect", 1, "removeUser", Undef, reason, Undef, Undef))
    /\ UNCHANGED <<variant, secret, pool, data, meets, meetKeys, backend, escaped>>

BD_disconnect_resume(f, o) ==
    /\ Ready
    /\ variant = "BD"
    /\ f \in inflight /\ f.op = "disconnect"
    /\ o \in Outcomes
    /\ inflight' = inflight \ {f}
    /\ backend' = BackendAfter(f, o)
    /\ last' = Resumed(f, o)
    /\ escaped' = (o = "throw")
    /\ sent' = CASE o = "throw" -> <<>>
                 [] o = "error" -> <<ErrorEvent("error", f.sock, "joinMeet")>>
                 [] OTHER -> <<UsersOnline(f.meetId, InRoom(f.meetId), Answer(f),
                                           NoUser, NoUser)>>
    /\ UNCHANGED <<variant, secret, pool, conn, data, meets, meetKeys, rooms>>

--------------------------------------------------------------------------
(* The server that stores the session on newUser: src/unnamed/part_002     *)

SessionTokens == {"", "bearer"}

SS_newUser(s, token, userId, meetId) ==
    /\ Ready
    /\ variant = "SS"
    /\ conn[s] = "open"
    /\ last' = Event("newUser", s, meetId, userId, NoPayload, Undef)
    /\ sent' = <<>>
    /\ IF Falsy(meetId) \/ Falsy(userId) \/ Falsy(token)
       THEN UNCHANGED <<data, inflight>>
       ELSE /\ data' = [data EXCEPT ![s] = [userId |-> userId, meetId |-> meetId,
                                            token |-> token]]
            /\ Await(Request(s, "newUser", 1, "updateOrAddMeetingUser",
                             meetId, userId, s, token))
    /\ UNCHANGED <<variant, secret, pool, conn, meets, meetKeys, rooms, backend, escaped>>

SS_newUser_resume(f, o) ==
    /\ Ready
    /\ variant = "SS"
    /\ f \in inflight /\ f.op = "newUser"
    /\ o \in Outcomes
    /\ inflight' = inflight \ {f}
    /\ backend' = BackendAfter(f, o)
    /\ last' = Resumed(f, o)
    /\ CASE o = "throw" ->
              /\ sent' = <<ErrorEvent("socketServerError", f.sock, "backend")>>
              /\ UNCHANGED rooms
         [] o = "error" ->
              /\ sent' = <<ErrorEvent("socketServerError", f.sock, "newUser")>>
              /\ UNCHANGED rooms
         [] OTHER ->
              /\ rooms' = Join(f.sock, f.meetId)
              /\ sent' = <<UsersOnline(f.meetId, Join(f.sock, f.meetId)[f.meetId],
                                       Answer(f), FindUser(Answer(f), f.userId),
                                       NullUser)>>
    /\ UNCHANGED <<variant, secret, pool, conn, data, meets, meetKeys, escaped>>

SS_sendMessage(s, payload, at) ==
    /\ Ready
    /\ variant = "SS"
    /\ conn[s] = "open"
    /\ last' = Event("sendMessage", s, data[s].meetId, data[s].userId, payload, at)
    /\ IF NoTrimmed(payload.message)
       THEN sent' = <<>>
       ELSE sent' = <<NewMessage(data[s].meetId, InRoom(data[s].meetId),
                                 Outgoing(payload.userId, payload, at))>>
    /\ UNCHANGED <<variant, secret, pool, conn, data, meets, meetKeys, rooms, backend,
                   inflight, escaped>>

SS_disconnect(s) ==
    /\ Ready
    /\ variant = "SS"
    /\ conn[s] = "open"
    /\ conn' = [conn EXCEPT ![s] = "closed"]
    /\ rooms' = LeaveAll(s)
    /\ last' = Event("disconnect", s, data[s].meetId, data[s].userId, NoPayload, Undef)
    /\ sent' = <<>>
    /\ IF Falsy(data[s].userId) \/ Falsy(data[s].meetId)
       THEN UNCHANGED inflight
       ELSE Await(Request(s, "disconnect", 1, "removeUser", data[s].meetId,
                          data[s].userId, Undef, data[s].token))
    /\ UNCHANGED <<variant, secret, pool, data, meets, meetKeys, backend, escaped>>

SS_disconnect_resume(f, o) ==
    /\ Ready
    /\ variant = "SS"
    /\ f \in inflight /\ f.op = "disconnect"
    /\ o \in Outcomes
    /\ inflight' = inflight \ {f}
    /\ backend' = BackendAfter(f, o)
    /\ last' = Resumed(f, o)
    /\ sent' = IF o = "ok"
               THEN <<UsersOnline(f.meetId, InRoom(f.meetId), Answer(f),
                                  NullUser, User(f.sock, f.userId))>>
               ELSE <<>>
    /\ UNCHANGED <<variant, secret, pool, conn, data, meets, meetKeys, rooms, escaped>>

--------------------------------------------------------------------------
(* Initial state                                                           *)

\* the state after construction of server `variant` in V, the backend's
\* rooms holding n members for some n in Sizes, the HTTP client keeping at
\* most Pool requests in flight
InitOf(V, Sizes, Pool) ==
    /\ variant \in V
    /\ pool = Pool
    /\ secret \in BOOLEAN
    /\ (variant # "JWT" => secret = FALSE)
    /\ conn = [s \in Sockets |-> "idle"]
    /\ data = [s \in Sockets |-> NoData]
    /\ meets = <<>>
    /\ meetKeys = <<>>
    /\ rooms = [r \in MeetIds |-> {}]
    /\ \E n \in Sizes :
          backend = [r \in MeetIds |-> IF variant = "SC" THEN <<>> ELSE Prefill(n)]
    /\ inflight = {}
    /\ escaped = FALSE
    /\ last = Idle
    /\ sent = <<>>

Init == InitOf(Variants, PrefillSizes, MaxInflight)

--------------------------------------------------------------------------

\* the callback returns to the event loop; what it emitted has been written out
Return ==
    /\ last # Idle
    /\ last' = Idle
    /\ sent' = <<>>
    /\ UNCHANGED <<variant, secret, pool, conn, data, meets, meetKeys, rooms, backend,
                   inflight, escaped>>

MeetArgs == MeetIds \cup {""}
UserArgs == UserIds \cup {""}

\* the callbacks of each server, with their arguments drawn from M (room
\* ids), U (user ids) and P (message payloads)
NextSC(M, U, P) ==
    \/ \E s \in Sockets : Connect(s)
    \/ \E s \in Sockets, meetId \in M : SC_joinMeet(s, meetId)
    \/ \E s \in Sockets, meetId \in M, userId \in U : SC_newUser(s, meetId, userId)
    \/ \E s \in Sockets, meetId \in M, payload \in P, at \in ClockTimes :
          SC_sendMessage(s, meetId, payload, at)
    \/ \E s \in Sockets : SC_disconnect(s)

NextBE(M, U, P) ==
    \/ \E s \in Sockets : Connect(s)
    \/ \E s \in Sockets, userId \in U, meetId \in M : BE_newUser(s, userId, meetId)
    \/ \E f \in inflight, o \in Outcomes : BE_newUser_resume(f, o)
    \/ \E s \in Sockets, meetId \in M, payload \in P, at \in ClockTimes :
          BE_sendMessage(s, meetId, payload, at)
    \/ \E s \in Sockets, reason \in DisconnectReasons : BE_disconnect(s, reason)
    \/ \E f \in inflight, o \in Outcomes : BE_disconnect_resume(f, o)

NextB0(M, U, P) ==
    \/ \E s \in Sockets : Connect(s)
    \/ \E s \in Sockets, userId \in U, meetId \in M : B0_newUser(s, userId, meetId)
    \/ \E f \in inflight, o \in Outcomes : B0_newUser_resume(f, o)
    \/ \E s \in Sockets, meetId \in M, payload \in P, at \in ClockTimes :
          B0_sendMessage(s, meetId, payload, at)
    \/ \E s \in Sockets, reason \in DisconnectReasons : B0_disconnect(s, reason)
    \/ \E f \in inflight, o \in Outcomes : B0_disconnect_resume(f, o)

NextJWT(M, P) ==
    \/ \E s \in Sockets, token \in Tokens : JWT_connect(s, token)
    \/ \E s \in Sockets, meetId \in M : JWT_newUser(s, meetId)
    \/ \E f \in inflight, o \in Outcomes : JWT_newUser_resume(f, o)
    \/ \E s \in Sockets, payload \in P, at \in ClockTimes :
          JWT_sendMessage(s, payload, at)
    \/ \E s \in Sockets : JWT_disconnect(s)
    \/ \E f \in inflight, o \in Outcomes : JWT_disconnect_resume(f, o)

NextBD(M, U, P) ==
    \/ \E s \in Sockets : Connect(s)
    \/ \E s \in Sockets, userId \in U, meetId \in M : BD_joinMeet(s, userId, meetId)
    \/ \E f \in inflight, o \in Outcomes : BD_joinMeet_meet(f, o)
    \/ \E f \in inflight, o \in Outcomes : BD_joinMeet_added(f, o)
    \/ \E s \in Sockets, meetId \in M, userId \in U : BD_newUser(s, meetId, userId)
    \/ \E f \in inflight, o \in Outcomes : BD_newUser_updated(f, o)
    \/ \E f \in inflight, o \in Outcomes : BD_newUser_users(f, o)
    \/ \E s \in Sockets, meetId \in M, payload \in P, at \in ClockTimes :
          BD_sendMessage(s, meetId, payload, at)
    \/ \E s \in Sockets, reason \in DisconnectReasons : BD_disconnect(s, reason)
    \/ \E f \in inflight, o \in Outcomes : BD_disconnect_resume(f, o)

NextSS(M, U, P) ==
    \/ \E s \in Sockets : Connect(s)
    \/ \E s \in Sockets, token \in SessionTokens, userId \in U, meetId \in M :
          SS_newUser(s, token, userId, meetId)
    \/ \E f \in inflight, o \in Outcomes : SS_newUser_resume(f, o)
    \/ \E s \in Sockets, payload \in P, at \in ClockTimes :
          SS_sendMessage(s, payload, at)
    \/ \E s \in Sockets : SS_disconnect(s)
    \/ \E f \in inflight, o \in Outcomes : SS_disconnect_resume(f, o)

\* the payloads of the specifications of the chat relay: every kind of
\* text, from the session's user and from another
ChatPayloads == {p \in Payloads : p.timestamp = Undef /\ p.userId \in UserIds}

OneRoom == {"r1", ""}
OneUser == {"u1", ""}

\* every server, each started on a backend without members
Next ==
    \/ Return
    \/ NextSC(OneRoom, OneUser, ChatPayloads)
    \/ NextBE(OneRoom, OneUser, ChatPayloads)
    \/ NextB0(OneRoom, OneUser, ChatPayloads)
    \/ NextJWT(OneRoom, ChatPayloads)
    \/ NextBD(OneRoom, OneUser, ChatPayloads)
    \/ NextSS(OneRoom, OneUser, ChatPayloads)

Spec == InitOf(Variants, {0}, MaxInflight) /\ [][Next]_vars

\* the self-contained server with every argument and payload
StepSC == Return \/ NextSC(MeetArgs, UserArgs, Payloads)
SpecSC == InitOf({"SC"}, {0}, MaxInflight) /\ [][StepSC]_vars

\* the server without session
StepB0 == Return \/ NextB0(MeetArgs, UserArgs, FewPayloads)
SpecB0 == InitOf({"B0"}, {0}, MaxInflight) /\ [][StepB0]_vars

\* the token-authenticated server, also on rooms one member short of full
StepJWT == Return \/ NextJWT(MeetArgs, FewPayloads)
SpecJWT == InitOf({"JWT"}, PrefillSizes, MaxInflight) /\ [][StepJWT]_vars

\* the two servers that limit a room's occupancy, the backend's rooms one
\* member short of full
StepCap ==
    \/ Return
    \/ NextSC(MeetArgs, UserArgs, FewPayloads)
    \/ NextBD(OneRoom, OneUser, FewPayloads)
SpecCap == InitOf({"SC", "BD"}, {BD_Capacity - 1}, MaxInflight) /\ [][StepCap]_vars

\* the backend server with try/catch
StepBE == Return \/ NextBE(MeetArgs, UserArgs, FewPayloads)
SpecBE == InitOf({"BE"}, {0}, MaxInflight) /\ [][StepBE]_vars

\* the server that stores the session on newUser
StepSS == Return \/ NextSS(MeetArgs, UserArgs, FewPayloads)
SpecSS == InitOf({"SS"}, {0}, MaxInflight) /\ [][StepSS]_vars

\* the token-authenticated server on one room of a backend without members
StepGate == Return \/ NextJWT(OneRoom, FewPayloads)
SpecGate == InitOf({"JWT"}, {0}, MaxInflight) /\ [][StepGate]_vars

\* the self-contained server with two payloads
StepRooms == Return \/ NextSC(MeetArgs, UserArgs, FewPayloads)
SpecRooms == InitOf({"SC"}, {0}, MaxInflight) /\ [][StepRooms]_vars

\* the two servers that keep a session, on one room
StepSession ==
    \/ Return
    \/ NextJWT(OneRoom, FewPayloads)
    \/ NextSS(OneRoom, UserArgs, FewPayloads)
SpecSession == InitOf({"JWT", "SS"}, {0}, MaxInflight) /\ [][StepSession]_vars

\* a blank and a non-blank text from one user
RelayPayloads == {p \in FewPayloads : p.userId = "u1"}

\* every server; the self-contained one with every room argument
StepRelay ==
    \/ Return
    \/ NextSC(MeetArgs, OneUser, RelayPayloads)
    \/ NextBE(OneRoom, OneUser, RelayPayloads)
    \/ NextB0(OneRoom, OneUser, RelayPayloads)
    \/ NextJWT(OneRoom, RelayPayloads)
    \/ NextBD(OneRoom, OneUser, RelayPayloads)
    \/ NextSS(OneRoom, OneUser, RelayPayloads)
SpecRelay == InitOf(Variants, {0}, MaxInflight) /\ [][StepRelay]_vars

\* the joins and disconnects of the backend-delegated server, with two users
\* on one room that is one member short of full, the HTTP client keeping one
\* more request in flight
StepRace ==
    \/ Return
    \/ \E s \in Sockets : Connect(s)
    \/ \E s \in Sockets, userId \in UserIds, meetId \in OneRoom :
          BD_joinMeet(s, userId, meetId)
    \/ \E f \in inflight, o \in Outcomes : BD_joinMeet_meet(f, o)
    \/ \E f \in inflight, o \in Outcomes : BD_joinMeet_added(f, o)
    \/ \E s \in Sockets, reason \in DisconnectReasons : BD_disconnect(s, reason)
    \/ \E f \in inflight, o \in Outcomes : BD_disconnect_resume(f, o)
SpecRace == InitOf({"BD"}, {BD_Capacity - 1}, MaxInflight + 1) /\ [][StepRace]_vars

\* the token-authenticated server on one room, the HTTP client keeping one
\* more request in flight: a connection can close while its join is pending
StepClose == Return \/ NextJWT(OneRoom, RelayPayloads)
SpecClose == InitOf({"JWT"}, {0}, MaxInflight + 1) /\ [][StepClose]_vars

TypeOK ==
    /\ variant \in Variants
    /\ \A s \in Sockets : conn[s] \in {"idle", "open", "closed"}
    /\ DOMAIN meets \subseteq MeetIds
    /\ \A r \in DOMAIN meets : Len(meets[r]) <= SC_Capacity

--------------------------------------------------------------------------
(* What the specification says of texts and timestamps                     *)

\* a text that is missing, or empty once leading and trailing whitespace
\* is removed
IsBlank(t) == t = NoText \/ \A i \in 1..Len(t) : t[i] \in {" ", "\t", "\n"}

\* a text without its leading and trailing whitespace
Stripped(t) ==
    LET inked == {i \in 1..Len(t) : t[i] \notin {" ", "\t", "\n"}}
        first == CHOOSE i \in inked : \A j \in inked : i <= j
        final == CHOOSE i \in inked : \A j \in inked : j <= i
    IN IF inked = {} THEN <<>> ELSE SubSeq(t, first, final)

\* a timestamp Date.parse accepts
Parseable(ts) == ts = "2020-05-05T05:05:05.000Z"

--------------------------------------------------------------------------
(* Claims                                                                  *)

\* C1: in the self-contained server every room's participant list holds at
\* most one entry per user id, the empty user id of joinMeet included.
C1_OneEntryPerUserId ==
    variant = "SC" =>
        \A r \in DOMAIN meets : \A i, j \in 1..Len(meets[r]) :
            i # j => meets[r][i].userId # meets[r][j].userId

\* C2: a join that observes the room at or above its capacity (2 in the
\* self-contained joinMeet, 10 in the backend-delegated joinMeet) changes
\* neither the registry nor the backend's membership, issues no request,
\* subscribes nobody, and emits meetFull to the requesting connection and
\* nothing else.
C2_FullRoomRejectsJoin ==
    [][/\ (/\ variant = "SC"
           /\ last'.op = "joinMeet"
           /\ last'.meetId \in DOMAIN meets
           /\ Len(meets[last'.meetId]) >= 2)
          => /\ meets' = meets /\ meetKeys' = meetKeys
             /\ rooms' = rooms
             /\ inflight' = inflight
             /\ Len(sent') = 1
             /\ sent'[1].ev = "meetFull"
             /\ sent'[1].sock = last'.sock
             /\ sent'[1].to = {last'.sock}
       /\ (/\ variant = "BD"
           /\ last'.op = "joinMeet"
           /\ last'.phase = "getMeet"
           /\ last'.outcome = "ok"
           /\ Len(backend[last'.meetId]) >= 10)
          => /\ backend' = backend
             /\ rooms' = rooms
             /\ inflight' \subseteq inflight
             /\ Len(sent') = 1
             /\ sent'[1].ev = "meetFull"
             /\ sent'[1].sock = last'.sock
             /\ sent'[1].to \subseteq {last'.sock}]_vars

\* a backend-delegated joinMeet has just been refused on a room of 10
C2_Witness ==
    /\ variant = "BD"
    /\ last.op = "joinMeet" /\ last.phase = "getMeet" /\ last.outcome = "ok"
    /\ Len(backend[last.meetId]) = 10
    /\ \E i \in 1..10 : backend[last.meetId][i].socketId \in Sockets
    /\ Len(sent) = 1 /\ sent[1].ev = "meetFull" /\ sent[1].to = {last.sock}
    /\ last.sock \notin rooms[last.meetId]

\* C3: in the token-authenticated server a newUser to a room of 10 or more
\* members, by a user who is not one of them, is refused: meetFull to the
\* requester, no subscription, no add-or-update request.
C3_TokenJoinRefusedWhenFull ==
    [][(/\ variant = "JWT"
        /\ last'.op = "newUser"
        /\ last'.phase = "event"
        /\ last'.meetId \in MeetIds
        /\ Len(backend[last'.meetId]) >= 10
        /\ \A i \in 1..Len(backend[last'.meetId]) :
              backend[last'.meetId][i].userId # data[last'.sock].userId)
       => /\ inflight' = inflight
          /\ rooms' = rooms
          /\ Len(sent') = 1
          /\ sent'[1].ev = "meetFull"
          /\ sent'[1].sock = last'.sock]_vars

\* C4: in every server a sendMessage whose text is missing or blank emits
\* nothing, issues no request and changes no room or session state.
C4_BlankMessageIgnored ==
    [][(last'.op = "sendMessage" /\ IsBlank(last'.payload.message))
       => /\ sent' = <<>>
          /\ inflight' = inflight
          /\ UNCHANGED <<conn, data, meets, meetKeys, rooms, backend, escaped>>]_vars

\* the token-authenticated server has just ignored a whitespace-only text
\* sent under another user's id by a connection subscribed to its room
C4_Witness ==
    /\ variant = "JWT"
    /\ last.op = "sendMessage"
    /\ last.payload.message = <<" ", "\t">>
    /\ last.payload.userId # data[last.sock].userId
    /\ last.meetId \in MeetIds
    /\ last.sock \in rooms[last.meetId]
    /\ sent = <<>>

\* C5: a connection subscribed to room R that sends a non-blank text (in the
\* token-authenticated server under its session's user id) causes exactly
\* one newMessage with the sender's user id and the trimmed text, delivered
\* to the connections subscribed to R, the sender among them.
C5_MessageReachesTheRoom ==
    [][\A r \in MeetIds :
        (/\ variant = "JWT"
         /\ last'.op = "sendMessage"
         /\ ~IsBlank(last'.payload.message)
         /\ last'.payload.userId = data[last'.sock].userId
         /\ last'.sock \in rooms[r])
        => /\ Len(sent') = 1
           /\ sent'[1].ev = "newMessage"
           /\ sent'[1].out.userId = data[last'.sock].userId
           /\ sent'[1].out.message = Stripped(last'.payload.message)
           /\ sent'[1].to = rooms[r]
           /\ last'.sock \in sent'[1].to]_vars

\* C6: a relayed newMessage carries the client's timestamp when it is
\* present and parseable, and the receipt time otherwise.
C6_TimestampParsedOrReceipt ==
    (/\ last.op = "sendMessage"
     /\ Len(sent) = 1
     /\ sent[1].ev = "newMessage")
    => sent[1].out.timestamp =
          IF Parseable(last.payload.timestamp) THEN last.payload.timestamp
          ELSE last.at

\* C7: the disconnect of a connection that never joined a room emits
\* nothing and issues no backend request.
C7_UnjoinedDisconnectIsSilent ==
    [][(/\ last'.op = "disconnect"
        /\ last'.phase = "event"
        /\ data[last'.sock].meetId = Undef
        /\ \A r \in MeetIds :
              /\ last'.sock \notin rooms[r]
              /\ \A i \in 1..Len(backend[r]) : backend[r][i].socketId # last'.sock
        /\ \A f \in inflight : f.sock # last'.sock)
       => /\ sent' = <<>>
          /\ inflight' = inflight]_vars

\* C8: an accepted join is followed by exactly one usersOnline to the room:
\* the updated list with an entry for the joining user, that entry as the
\* joining argument, and null as the leaving argument.
C8_JoinBroadcast ==
    (\/ /\ variant = "SC"
        /\ last.op = "joinMeet"
        /\ sent # <<>> /\ sent[1].ev = "usersOnline"
     \/ /\ variant = "JWT"
        /\ last.op = "newUser"
        /\ last.phase = "updateOrAddMeetingUser"
        /\ last.outcome = "ok")
    => /\ Len(sent) = 1
       /\ sent[1].ev = "usersOnline"
       /\ sent[1].room = last.meetId
       /\ sent[1].joining.socketId = last.sock
       /\ \E i \in 1..Len(sent[1].list) : sent[1].list[i] = sent[1].joining
       /\ sent[1].leaving = NullUser

\* C9: when a join is accepted the joining connection is subscribed to the
\* room before usersOnline is broadcast, so it is among the recipients.
C9_JoinerIsSubscribed ==
    (/\ last.op \in {"newUser", "joinMeet"}
     /\ last.phase \in {"updateOrAddMeetingUser", "addUser", "getMeetingUsers"}
     /\ last.outcome = "ok"
     /\ last.meetId \in MeetIds
     /\ conn[last.sock] = "open")
    => /\ last.sock \in rooms[last.meetId]
       /\ Len(sent) = 1
       /\ sent[1].ev = "usersOnline"
       /\ last.sock \in sent[1].to

\* C10: the disconnect of a connection bound to room R removes its entry and
\* only its entry, keeps the order of the others, and broadcasts exactly one
\* usersOnline with the updated list, joining = null and the removed
\* participant as leaving, to the connections remaining in R.
C10_LeaveBroadcast ==
    [][\A r \in DOMAIN meets :
        (/\ variant = "SC"
         /\ last'.op = "disconnect"
         /\ \E i \in 1..Len(meets[r]) : meets[r][i].socketId = last'.sock)
        => /\ Cardinality({k \in 1..Len(sent') : sent'[k].room = r}) = 1
           /\ \A k \in 1..Len(sent') : sent'[k].room = r =>
                /\ sent'[k].ev = "usersOnline"
                /\ sent'[k].list =
                      SelectSeq(meets[r], LAMBDA u : u.socketId # last'.sock)
                /\ sent'[k].to = rooms[r] \ {last'.sock}
                /\ sent'[k].joining = NullUser
                /\ sent'[k].leaving.socketId = last'.sock]_vars

\* C11: when a connection that joined room R as user U closes, the remove
\* request of the disconnect handler names room R and user U.
C11_RemoveNamesTheJoinedRoom ==
    [][\A r \in MeetIds : \A u \in UserIds :
        (/\ variant \in {"BE", "BD", "SS"}
         /\ last'.op = "disconnect"
         /\ last'.phase = "event"
         /\ last'.sock \in rooms[r]
         /\ \E i \in 1..Len(backend[r]) : backend[r][i] = User(last'.sock, u))
        => \E f \in inflight' \ inflight :
              /\ f.sock = last'.sock
              /\ f.endpoint = "removeUser"
              /\ f.meetId = r
              /\ f.userId = u]_vars

\* C12: in the servers that bind a user id to the session, a sendMessage
\* under another user id emits an error event to the sender only and relays
\* no newMessage.
C12_ForeignUserIdRefused ==
    [][(/\ variant \in {"JWT", "SS"}
        /\ last'.op = "sendMessage"
        /\ ~IsBlank(last'.payload.message)
        /\ data[last'.sock].userId \in UserIds
        /\ data[last'.sock].meetId \in MeetIds
        /\ last'.sock \in rooms[data[last'.sock].meetId]
        /\ last'.payload.userId # data[last'.sock].userId)
       => /\ Len(sent') = 1
          /\ sent'[1].ev \in {"socketServerError", "error"}
          /\ sent'[1].to = {last'.sock}]_vars

\* C13: the authenticating gateway admits a connection only with a token
\* that verifies under a configured secret, and then its session holds the
\* decoded user id and the raw token; a refused connection is closed at
\* once, has no session state, runs no handler, and causes no request and
\* no emission.
C13_GatewayAdmitsOnlyVerified ==
    variant = "JWT" =>
        /\ \A s \in Sockets : conn[s] = "open" =>
              /\ secret
              /\ data[s].token \in {"token-u1", "token-u2"}
              /\ data[s].userId = (IF data[s].token = "token-u1" THEN "u1" ELSE "u2")
        /\ \A s \in Sockets : data[s].token = Undef =>
              /\ data[s] = NoData
              /\ conn[s] # "open"
              /\ \A r \in MeetIds : s \notin rooms[r]
              /\ \A f \in inflight : f.sock # s
              /\ last.sock = s =>
                    /\ last.op = "connection"
                    /\ last.outcome = "rejected"
                    /\ conn[s] = "closed"
                    /\ sent = <<>>

\* a connection with a forged token has just been refused while another,
\* admitted with a valid token, is subscribed to a room
C13_Witness ==
    /\ variant = "JWT"
    /\ last.op = "connection" /\ last.outcome = "rejected"
    /\ conn[last.sock] = "closed"
    /\ secret
    /\ \E s \in Sockets, r \in MeetIds :
          /\ conn[s] = "open"
          /\ data[s].token = "token-u1"
          /\ s \in rooms[r]

\* C14: when the add-or-update request of a join is answered with an error
\* payload, the requester gets one scoped error event with an origin,
\* nothing is broadcast, and the handler subscribes the connection to no
\* room.
C14_RefusedJoinDoesNotSubscribe ==
    [][(/\ variant \in {"BE", "B0", "JWT", "BD", "SS"}
        /\ last'.op \in {"newUser", "joinMeet"}
        /\ last'.phase \in {"updateOrAddMeetingUser", "addUser", "updateMeetingUser"}
        /\ last'.outcome = "error")
       => /\ Len(sent') = 1
          /\ sent'[1].ev \in {"socketServerError", "error"}
          /\ sent'[1].origin # Undef
          /\ sent'[1].sock = last'.sock
          /\ sent'[1].to \subseteq {last'.sock}
          /\ rooms' = rooms]_vars

\* C15: a join whose request failed (error payload or thrown failure) binds
\* no room id to the session of a connection that has joined no room, and
\* the later disconnect of such a connection issues no remove request.
C15_FailedJoinBindsNoRoom ==
    [][/\ (/\ variant \in {"JWT", "SS"}
           /\ last'.op = "newUser"
           /\ last'.phase = "updateOrAddMeetingUser"
           /\ last'.outcome \in {"error", "throw"}
           /\ \A r \in MeetIds : last'.sock \notin rooms'[r])
          => data'[last'.sock].meetId = Undef
       /\ (/\ variant \in {"JWT", "SS"}
           /\ last'.op = "disconnect"
           /\ last'.phase = "event"
           /\ \A r \in MeetIds : last'.sock \notin rooms[r])
          => /\ inflight' = inflight
             /\ sent' = <<>>]_vars

\* C16: when a request of a join handler fails by throwing, the handler
\* reports one scoped error event to the requester only, no exception
\* escapes it, and no room, membership or other connection changes.
C16_ThrownFailureIsReported ==
    [][(/\ variant \in {"BE", "B0", "JWT", "BD", "SS"}
        /\ last'.op \in {"newUser", "joinMeet"}
        /\ last'.outcome = "throw")
       => /\ ~escaped'
          /\ Len(sent') = 1
          /\ sent'[1].ev \in {"socketServerError", "error"}
          /\ sent'[1].sock = last'.sock
          /\ sent'[1].to \subseteq {last'.sock}
          /\ rooms' = rooms
          /\ backend' = backend
          /\ conn' = conn]_vars

\* C17: a connection is subscribed to at most one room's broadcast group
\* and has at most one participant entry over all rooms of the registry.
C17_AtMostOneRoom ==
    \A s \in Sockets :
        /\ Cardinality({r \in MeetIds : s \in rooms[r]}) <= 1
        /\ Cardinality({e \in {<<r, i>> : r \in DOMAIN meets, i \in 1..SC_Capacity} :
                           /\ e[2] <= Len(meets[e[1]])
                           /\ meets[e[1]][e[2]].socketId = s}) <= 1

\* C18: a join event with an empty room id or an empty user id is ignored
\* in silence: no request, no emission, no subscription, no change of
\* registry, membership or session.
C18_EmptyIdsIgnoredInSilence ==
    [][(/\ last'.op \in {"newUser", "joinMeet"}
        /\ last'.phase = "event"
        /\ (last'.meetId = "" \/ last'.userId = ""))
       => /\ sent' = <<>>
          /\ inflight' = inflight
          /\ UNCHANGED <<rooms, data, meets, meetKeys, backend, conn>>]_vars

\* C19: in the self-contained server a room is in the registry exactly
\* while it has participants: no room maps to an empty list, a room is
\* created by the first join to it and by nothing else, and it is deleted by
\* the disconnect that removes its last participant and by nothing else.
C19_RoomExistsWhileOccupied ==
    /\ [](variant = "SC" => \A r \in DOMAIN meets : Len(meets[r]) >= 1)
    /\ [][variant = "SC" =>
            /\ \A r \in MeetIds \ DOMAIN meets :
                  /\ (last'.op = "joinMeet" /\ last'.meetId = r)
                        => /\ r \in DOMAIN meets'
                           /\ Len(meets'[r]) = 1
                           /\ meets'[r][1].socketId = last'.sock
                  /\ r \in DOMAIN meets' => (last'.op = "joinMeet" /\ last'.meetId = r)
            /\ \A r \in DOMAIN meets :
                  /\ last'.op = "disconnect"
                        => (r \in DOMAIN meets' <=>
                              \E i \in 1..Len(meets[r]) :
                                  meets[r][i].socketId # last'.sock)
                  /\ r \notin DOMAIN meets' => last'.op = "disconnect"]_vars

\* the disconnect of the last participant of one room has just deleted it
\* while another room, still occupied, stays in the registry
C19_Witness ==
    /\ variant = "SC"
    /\ last.op = "disconnect"
    /\ \E k \in 1..Len(sent) :
          /\ sent[k].ev = "usersOnline"
          /\ sent[k].list = <<>>
          /\ sent[k].room \notin DOMAIN meets
    /\ \E r \in DOMAIN meets : Len(meets[r]) >= 1

\* C20: in the servers that keep a session a remove request is issued only
\* by the disconnect of an open connection, which closes for good, so at
\* most once per connection; when the request is answered with an error
\* payload or throws, the handler issues no further request, leaves the
\* membership and the subscriptions alone and emits nothing.
C20_RemovalIsNotRetried ==
    [][(variant = "JWT" \/ variant = "SS") =>
        /\ \A f \in inflight' \ inflight : f.endpoint = "removeUser" =>
              /\ last'.op = "disconnect" /\ last'.phase = "event"
              /\ last'.sock = f.sock
              /\ conn[f.sock] = "open"
              /\ conn'[f.sock] = "closed"
              /\ \A g \in inflight' \ {f} :
                    ~(g.endpoint = "removeUser" /\ g.sock = f.sock)
        /\ \A s \in Sockets : conn[s] = "closed" => conn'[s] = "closed"
        /\ (/\ last'.op = "disconnect"
            /\ last'.phase = "removeUser"
            /\ last'.outcome \in {"error", "throw"})
           => /\ sent' = <<>>
              /\ inflight' \subseteq inflight
              /\ backend' = backend
              /\ rooms' = rooms
              /\ escaped' = FALSE]_vars

\* the remove request of a closed connection has just failed while another
\* connection is subscribed to its room: the member is still listed and
\* nothing has been emitted
C20_Witness ==
    /\ variant \in {"JWT", "SS"}
    /\ last.op = "disconnect"
    /\ last.phase = "removeUser"
    /\ last.outcome \in {"error", "throw"}
    /\ last.meetId \in MeetIds
    /\ rooms[last.meetId] # {}
    /\ \E i \in 1..Len(backend[last.meetId]) :
          backend[last.meetId][i].userId = last.userId
    /\ sent = <<>>
    /\ inflight = {}

\* C21: sendMessage changes neither the registry, nor the subscriptions,
\* nor the session state, and issues no request; in the self-contained
\* server a newUser changes only the user id of the entries of the calling
\* connection in the room it names: lengths, order and all other entries of
\* all rooms stay as they are.
C21_RelayAndRenameFrame ==
    [][/\ last'.op = "sendMessage"
          => /\ inflight' = inflight
             /\ UNCHANGED <<meets, meetKeys, rooms, data, backend, conn, escaped>>
       /\ (variant = "SC" /\ last'.op = "newUser")
          => /\ DOMAIN meets' = DOMAIN meets
             /\ UNCHANGED <<meetKeys, rooms, data, backend, conn, inflight>>
             /\ \A r \in DOMAIN meets :
                   /\ Len(meets'[r]) = Len(meets[r])
                   /\ \A i \in 1..Len(meets[r]) :
                         /\ meets'[r][i].socketId = meets[r][i].socketId
                         /\ meets'[r][i] # meets[r][i]
                               => /\ r = last'.meetId
                                  /\ meets[r][i].socketId = last'.sock
                                  /\ meets'[r][i].userId = last'.userId]_vars

\* a connection has just renamed itself in a room it shares with another
\* connection, while a second room is occupied
C21_Witness ==
    /\ variant = "SC"
    /\ last.op = "newUser"
    /\ last.userId \in UserIds
    /\ last.meetId \in DOMAIN meets
    /\ \E i, j \in 1..Len(meets[last.meetId]) :
          /\ meets[last.meetId][i] = User(last.sock, last.userId)
          /\ meets[last.meetId][j].socketId # last.sock
          /\ meets[last.meetId][j].userId # last.userId
    /\ \E r \in DOMAIN meets : r # last.meetId

\* C22: under any interleaving of the joinMeet handlers of different
\* connections the joins of the backend-delegated server never bring the
\* membership of a room above the capacity of 10.
C22_JoinsRespectCapacity ==
    [][(/\ variant = "BD"
        /\ last'.op = "joinMeet"
        /\ last'.phase = "addUser"
        /\ last'.outcome = "ok"
        /\ Len(backend[last'.meetId]) <= 10
        /\ \A i, j \in 1..Len(backend'[last'.meetId]) :
              (/\ i # j
               /\ backend'[last'.meetId][i].socketId \in Sockets)
              => backend'[last'.meetId][i].socketId # backend'[last'.meetId][j].socketId)
       => Len(backend'[last'.meetId]) <= 10]_vars

\* C23: when the join request of a connection is answered after the
\* connection has closed, no usersOnline names the closed connection as the
\* joining participant, the connection is subscribed to no room, and once
\* no call is in flight any more it has no entry in the backend's membership.
C23_CloseDuringJoin ==
    [][(/\ variant = "JWT"
        /\ last'.op = "newUser"
        /\ last'.phase = "updateOrAddMeetingUser"
        /\ conn[last'.sock] = "closed")
       => /\ \A k \in 1..Len(sent') :
                sent'[k].ev = "usersOnline" => sent'[k].joining.socketId # last'.sock
          /\ \A r \in MeetIds : last'.sock \notin rooms'[r]
          /\ inflight' = {} =>
                \A r \in MeetIds : \A i \in 1..Len(backend'[r]) :
                    backend'[r][i].socketId # last'.sock]_vars

\* C24: in every variant, a newMessage that is delivered to members of a room
\* was caused by a sendMessage of a connection subscribed to that room.
C24_SenderIsSubscribed ==
    \A k \in 1..Len(sent) :
        (/\ last.op = "sendMessage"
         /\ sent[k].ev = "newMessage"
         /\ sent[k].to # {})
        => last.sock \in InRoom(sent[k].room)

\* C25: in the self-contained server, in every state and for every room, the
\* connections with an entry in the room's participant list are exactly the
\* connections subscribed to the room, all of them are open, and the list
\* holds at most 2 entries.
C25_RegistryMatchesRooms ==
    variant = "SC" =>
        \A r \in MeetIds :
            LET users == IF r \in DOMAIN meets THEN meets[r] ELSE <<>>
            IN  /\ {users[i].socketId : i \in 1..Len(users)} = rooms[r]
                /\ \A i \in 1..Len(users) : conn[users[i].socketId] = "open"
                /\ Len(users) <= 2

\* a member has disconnected from a room in which another connection remains
C25_Witness ==
    /\ variant = "SC"
    /\ last.op = "disconnect"
    /\ conn[last.sock] = "closed"
    /\ \E k \in 1..Len(sent) :
          /\ sent[k].ev = "usersOnline"
          /\ sent[k].room \in DOMAIN meets
          /\ Len(meets[sent[k].room]) >= 1
          /\ rooms[sent[k].room] # {}

==========================================================================
